---- MODULE Spec2Model ----
(***************************************************************************)
(* The VM translator of src/VMTranslator.py and src/main.py: a Parser that *)
(* hands out tokenised VM commands, a CodeWriter that appends one assembly *)
(* fragment per command to the output file, and the translate loop that    *)
(* connects them.  The emitted fragments are run on the target machine     *)
(* (16-bit words, registers A and D, RAM with SP/LCL/ARG/THIS/THAT at      *)
(* addresses 0..4) so that what a fragment does to the stack can be        *)
(* checked, not only what it looks like.                                   *)
(***************************************************************************)
EXTENDS Integers, Sequences, FiniteSets, TLC

VARIABLES
  variant,          \* which source file is the program: "VMTranslator" or "main"
  vmfile,           \* the commands of the .vm file, as Parser.__init__ tokenised them
  commands,         \* Parser.commands: the commands still to be handed out
  current_command,  \* Parser.current_command
  label_count,      \* CodeWriter.label_count
  file,             \* CodeWriter.file: the sequence of write() calls, each a sequence of lines
  origin,           \* per write: index in vmfile of the command translated (0: constructor)
  status,           \* "translating", "closed" (translate returned), "error" (exception)
  ram,              \* target machine: RAM, as a function on the cells written so far
  regA,             \* target machine: A register
  regD,             \* target machine: D register
  executed,         \* number of writes of file the machine has executed
  trace,            \* trace[i]: RAM before the i-th write was executed
  exit              \* how the last executed fragment ended

vars == <<variant, vmfile, commands, current_command, label_count, file, origin,
          status, ram, regA, regD, executed, trace, exit>>

transVars == <<variant, vmfile, commands, current_command, label_count, file,
               origin, status>>
machineVars == <<ram, regA, regD, executed, trace, exit>>

(***************************************************************************)
(* Assembly lines.  One record shape for every line kind:                  *)
(*   "@SP"      [k "A", d "SP",      n -1]     "@17"  [k "A", d "", n 17]  *)
(*   "@TRUE_3"  [k "A", d "TRUE_",   n 3]      "(TRUE_3)" [k "L", ...]     *)
(*   "AM=M-1"   [k "C", d "AM", c "M-1", j ""]                             *)
(*   "D;JEQ"    [k "C", d "",   c "D",   j "JEQ"]                          *)
(*   "// ..."   [k "//", ...]                                              *)
(***************************************************************************)
NoIdx == 0 - 1

ASym(s)     == [k |-> "A", d |-> s,  c |-> "", j |-> "", n |-> NoIdx]
ANum(i)     == [k |-> "A", d |-> "", c |-> "", j |-> "", n |-> i]
AIdx(s, i)  == [k |-> "A", d |-> s,  c |-> "", j |-> "", n |-> i]
C(dest, comp) == [k |-> "C", d |-> dest, c |-> comp, j |-> "", n |-> NoIdx]
J(comp, jump) == [k |-> "C", d |-> "", c |-> comp, j |-> jump, n |-> NoIdx]
L(s, i)     == [k |-> "L", d |-> s, c |-> "", j |-> "", n |-> i]
Comment(text, s, i) == [k |-> "//", d |-> s, c |-> text, j |-> "", n |-> i]

(* What a CodeWriter method does: raises, or writes asm and leaves lc in
   label_count. *)
Raise(lc)       == [err |-> TRUE,  asm |-> <<>>, lc |-> lc]
Written(asm, lc) == [err |-> FALSE, asm |-> asm,  lc |-> lc]

(***************************************************************************)
(* Parser                                                                  *)
(***************************************************************************)
ArithmeticCommands == {"add", "sub", "neg", "eq", "gt", "lt", "and", "or", "not"}

(* Parser.commandType of src/VMTranslator.py; "ERROR" is the ValueError, and
   the IndexError of current_command[0] on a command without tokens. *)
VMT_commandType(cmd) ==
  IF cmd = <<>> THEN "ERROR"
  ELSE IF cmd[1] \in ArithmeticCommands THEN "C_ARITHMETIC"
  ELSE IF cmd[1] = "push" THEN "C_PUSH"
  ELSE IF cmd[1] = "pop" THEN "C_POP"
  ELSE "ERROR"

(* Parser.commandType of src/main.py; "ERROR" is the ValueError. *)
main_commandType(cmd) ==
  IF cmd = <<>> THEN "None"
  ELSE IF cmd[1] \in ArithmeticCommands THEN "C_ARITHMETIC"
  ELSE IF cmd[1] = "push" THEN "C_PUSH"
  ELSE IF cmd[1] = "pop" THEN "C_POP"
  ELSE IF cmd[1] = "label" THEN "C_LABEL"
  ELSE IF cmd[1] = "goto" THEN "C_GOTO"
  ELSE IF cmd[1] = "if-goto" THEN "C_IF"
  ELSE IF cmd[1] = "function" THEN "C_FUNCTION"
  ELSE IF cmd[1] = "call" THEN "C_CALL"
  ELSE IF cmd[1] = "return" THEN "C_RETURN"
  ELSE "ERROR"

commandType(v, cmd) ==
  IF v = "main" THEN main_commandType(cmd) ELSE VMT_commandType(cmd)

(* What Parser.arg1 / Parser.arg2 do: raise, or return val. *)
ParserRaise == [err |-> TRUE]
Returned(val) == [err |-> FALSE, val |-> val]

(* A token is the sequence of its characters; Digit is the value of a
   decimal digit. *)
Digit == ("0" :> 0) @@ ("1" :> 1) @@ ("2" :> 2) @@ ("3" :> 3) @@ ("4" :> 4)
         @@ ("5" :> 5) @@ ("6" :> 6) @@ ("7" :> 7) @@ ("8" :> 8) @@ ("9" :> 9)

RECURSIVE Decimal(_)
Decimal(digits) ==
  IF digits = <<>> THEN 0
  ELSE 10 * Decimal(SubSeq(digits, 1, Len(digits) - 1))
       + Digit[digits[Len(digits)]]

(* int(token): the value of an optional sign and decimal digits, which
   single underscores may separate ("1_7" is 17); any other text raises
   ValueError.  Tokens are ASCII and their values within the machine
   integers of the checker. *)
int(token) ==
  LET signed == token # <<>> /\ token[1] \in {"-", "+"}
      body   == IF signed THEN Tail(token) ELSE token
      digits == SelectSeq(body, LAMBDA ch : ch # "_")
      wellFormed ==
        /\ body # <<>>
        /\ \A p \in 1..Len(body) : body[p] \in DOMAIN Digit \cup {"_"}
        /\ body[1] # "_"
        /\ body[Len(body)] # "_"
        /\ \A p \in 1..(Len(body) - 1) : ~(body[p] = "_" /\ body[p + 1] = "_")
  IN IF ~wellFormed THEN ParserRaise
     ELSE Returned(IF signed /\ token[1] = "-" THEN 0 - Decimal(digits)
                   ELSE Decimal(digits))

(* Parser.arg1 of src/VMTranslator.py: raises when commandType raises, and
   (IndexError) when the command has no token 1. *)
VMT_arg1(cmd) ==
  IF VMT_commandType(cmd) = "ERROR" THEN ParserRaise
  ELSE IF VMT_commandType(cmd) = "C_ARITHMETIC" THEN Returned(cmd[1])
  ELSE IF Len(cmd) < 2 THEN ParserRaise
  ELSE Returned(cmd[2])

(* Parser.arg1 of src/main.py. *)
main_arg1(cmd) ==
  IF main_commandType(cmd) = "ERROR" THEN ParserRaise
  ELSE IF main_commandType(cmd) = "C_ARITHMETIC" THEN Returned(cmd[1])
  ELSE IF Len(cmd) < 2 THEN ParserRaise
  ELSE Returned(cmd[2])

arg1(v, cmd) == IF v = "main" THEN main_arg1(cmd) ELSE VMT_arg1(cmd)

(* Parser.arg2 of src/VMTranslator.py: int(token 2) for push and pop; raises
   for every other command, when commandType raises, when there is no
   token 2 and when int raises. *)
VMT_arg2(cmd) ==
  IF VMT_commandType(cmd) \notin {"C_PUSH", "C_POP"} THEN ParserRaise
  ELSE IF Len(cmd) < 3 THEN ParserRaise
  ELSE int(cmd[3])

(* Parser.arg2 of src/main.py: also for function and call. *)
main_arg2(cmd) ==
  IF main_commandType(cmd) \notin {"C_PUSH", "C_POP", "C_FUNCTION", "C_CALL"}
  THEN ParserRaise
  ELSE IF Len(cmd) < 3 THEN ParserRaise
  ELSE int(cmd[3])

arg2(v, cmd) == IF v = "main" THEN main_arg2(cmd) ELSE VMT_arg2(cmd)

(***************************************************************************)
(* CodeWriter                                                              *)
(***************************************************************************)
BinaryOp == [add |-> "M+D", sub |-> "M-D", and |-> "M&D", or |-> "M|D"]
UnaryOp  == [neg |-> "-M", not |-> "!M"]
JumpOf   == [eq |-> "JEQ", gt |-> "JGT", lt |-> "JLT"]

(* writeArithmetic with the operands of sub in the opposite order. *)
writeArithmetic_subReversed(command, lc) ==
  IF command \in {"add", "sub", "and", "or"} THEN
    Written(<<ASym("SP"), C("AM", "M-1"), C("D", "M"), C("A", "A-1"),
              C("M", IF command = "sub" THEN "D-M" ELSE BinaryOp[command])>>, lc)
  ELSE IF command \in {"neg", "not"} THEN
    Written(<<ASym("SP"), C("A", "M-1"), C("M", UnaryOp[command])>>, lc)
  ELSE IF command \in {"eq", "gt", "lt"} THEN
    Written(<<ASym("SP"), C("AM", "M-1"), C("D", "M"), C("A", "A-1"),
              C("D", "M-D"),
              AIdx("TRUE_", lc), J("D", JumpOf[command]),
              ASym("SP"), C("A", "M-1"), C("M", "0"),
              AIdx("END_", lc), J("0", "JMP"),
              L("TRUE_", lc), ASym("SP"), C("A", "M-1"), C("M", "-1"),
              L("END_", lc)>>, lc + 1)
  ELSE Raise(lc)

(* writeArithmetic leaving label_count as it was after a comparison. *)
writeArithmetic_sameLabel(command, lc) ==
  IF command \in {"add", "sub", "and", "or"} THEN
    Written(<<ASym("SP"), C("AM", "M-1"), C("D", "M"), C("A", "A-1"),
              C("M", BinaryOp[command])>>, lc)
  ELSE IF command \in {"neg", "not"} THEN
    Written(<<ASym("SP"), C("A", "M-1"), C("M", UnaryOp[command])>>, lc)
  ELSE IF command \in {"eq", "gt", "lt"} THEN
    Written(<<ASym("SP"), C("AM", "M-1"), C("D", "M"), C("A", "A-1"),
              C("D", "M-D"),
              AIdx("TRUE_", lc), J("D", JumpOf[command]),
              ASym("SP"), C("A", "M-1"), C("M", "0"),
              AIdx("END_", lc), J("0", "JMP"),
              L("TRUE_", lc), ASym("SP"), C("A", "M-1"), C("M", "-1"),
              L("END_", lc)>>, lc)
  ELSE Raise(lc)

(* CodeWriter.writeArithmetic (the same text in both files). *)
writeArithmetic(command, lc) ==
  IF command \in {"add", "sub", "and", "or"} THEN
    Written(<<ASym("SP"), C("AM", "M-1"), C("D", "M"), C("A", "A-1"),
              C("M", BinaryOp[command])>>, lc)
  ELSE IF command \in {"neg", "not"} THEN
    Written(<<ASym("SP"), C("A", "M-1"), C("M", UnaryOp[command])>>, lc)
  ELSE IF command \in {"eq", "gt", "lt"} THEN
    Written(<<ASym("SP"), C("AM", "M-1"), C("D", "M"), C("A", "A-1"),
              C("D", "M-D"),
              AIdx("TRUE_", lc), J("D", JumpOf[command]),
              ASym("SP"), C("A", "M-1"), C("M", "0"),
              AIdx("END_", lc), J("0", "JMP"),
              L("TRUE_", lc), ASym("SP"), C("A", "M-1"), C("M", "-1"),
              L("END_", lc)>>, lc + 1)
  ELSE Raise(lc)

(* The tail every push shares: "@SP A=M M=D @SP M=M+1". *)
PushTail == <<ASym("SP"), C("A", "M"), C("M", "D"), ASym("SP"), C("M", "M+1")>>

VMT_Segments == {"constant", "local", "argument", "this", "that", "temp",
                 "pointer", "static"}
VMT_BaseOf == [local |-> "LCL", argument |-> "ARG", this |-> "THIS", that |-> "THAT"]

(* writePush without the final "@SP M=M+1". *)
VMT_writePush_noIncrement(segment, index, lc) ==
  IF segment \notin VMT_Segments THEN Raise(lc)
  ELSE LET head ==
         IF segment = "constant" THEN <<ANum(index), C("D", "A")>>
         ELSE IF segment \in DOMAIN VMT_BaseOf THEN
           <<ASym(VMT_BaseOf[segment]), C("D", "M"), ANum(index),
             C("A", "D+A"), C("D", "M")>>
         ELSE IF segment = "temp" THEN <<ANum(5 + index), C("D", "M")>>
         ELSE IF segment = "pointer" THEN
           <<ASym(IF index = 0 THEN "THIS" ELSE "THAT"), C("D", "M")>>
         ELSE <<AIdx("Static.", index), C("D", "M")>>
       IN Written(head \o <<ASym("SP"), C("A", "M"), C("M", "D")>>, lc)

(* writePop keeping the target address in LCL instead of R13. *)
VMT_writePop_scratchLCL(segment, index, lc) ==
  IF segment = "constant" THEN Raise(lc)
  ELSE IF segment \notin (VMT_Segments \ {"constant"}) THEN Raise(lc)
  ELSE IF segment \in {"temp", "pointer", "static"} THEN
    LET target == IF segment = "temp" THEN ANum(5 + index)
                  ELSE IF segment = "pointer"
                       THEN ASym(IF index = 0 THEN "THIS" ELSE "THAT")
                  ELSE AIdx("Static.", index)
    IN Written(<<ASym("SP"), C("AM", "M-1"), C("D", "M"), target,
                 C("M", "D")>>, lc)
  ELSE
    Written(<<ANum(index), C("D", "A"), ASym(VMT_BaseOf[segment]),
              C("D", "M+D"), ASym("LCL"), C("M", "D"),
              ASym("SP"), C("AM", "M-1"), C("D", "M"),
              ASym("LCL"), C("A", "M"), C("M", "D")>>, lc)

(* CodeWriter.writePush of src/VMTranslator.py. *)
VMT_writePush(segment, index, lc) ==
  IF segment \notin VMT_Segments THEN Raise(lc)
  ELSE LET head ==
         IF segment = "constant" THEN <<ANum(index), C("D", "A")>>
         ELSE IF segment \in DOMAIN VMT_BaseOf THEN
           <<ASym(VMT_BaseOf[segment]), C("D", "M"), ANum(index),
             C("A", "D+A"), C("D", "M")>>
         ELSE IF segment = "temp" THEN <<ANum(5 + index), C("D", "M")>>
         ELSE IF segment = "pointer" THEN
           <<ASym(IF index = 0 THEN "THIS" ELSE "THAT"), C("D", "M")>>
         ELSE <<AIdx("Static.", index), C("D", "M")>>
       IN Written(head \o PushTail, lc)

(* CodeWriter.writePop of src/VMTranslator.py. *)
VMT_writePop(segment, index, lc) ==
  IF segment = "constant" THEN Raise(lc)
  ELSE IF segment \notin (VMT_Segments \ {"constant"}) THEN Raise(lc)
  ELSE IF segment \in {"temp", "pointer", "static"} THEN
    LET target == IF segment = "temp" THEN ANum(5 + index)
                  ELSE IF segment = "pointer"
                       THEN ASym(IF index = 0 THEN "THIS" ELSE "THAT")
                  ELSE AIdx("Static.", index)
    IN Written(<<ASym("SP"), C("AM", "M-1"), C("D", "M"), target,
                 C("M", "D")>>, lc)
  ELSE
    Written(<<ANum(index), C("D", "A"), ASym(VMT_BaseOf[segment]),
              C("D", "M+D"), ASym("R13"), C("M", "D"),
              ASym("SP"), C("AM", "M-1"), C("D", "M"),
              ASym("R13"), C("A", "M"), C("M", "D")>>, lc)

(* CodeWriter.SEGMENTS of src/main.py; the numeric bases are the result of
   int(base). *)
SEGMENTS == [local |-> "LCL", argument |-> "ARG", this |-> "THIS", that |-> "THAT"]
SEGMENT_BASE == [temp |-> 5, pointer |-> 3, static |-> 16]
main_Segments == DOMAIN SEGMENTS \cup DOMAIN SEGMENT_BASE

(* CodeWriter.writePush of src/main.py.  A segment that is neither constant
   nor in SEGMENTS leaves asm_code unbound: "asm_code +=" raises. *)
main_writePush(segment, index, lc) ==
  IF segment = "constant" THEN
    Written(<<ANum(index), C("D", "A")>> \o PushTail, lc)
  ELSE IF segment \in main_Segments THEN
    IF segment \in {"temp", "pointer", "static"} THEN
      Written(<<ANum(SEGMENT_BASE[segment] + index), C("D", "M")>> \o PushTail, lc)
    ELSE
      Written(<<ASym(SEGMENTS[segment]), C("D", "M"), ANum(index),
                C("A", "D+A"), C("D", "M")>> \o PushTail, lc)
  ELSE Raise(lc)

(* writePop storing every direct segment at its base, the index dropped. *)
main_writePop_noIndex(segment, index, lc) ==
  IF segment \in main_Segments THEN
    IF segment \in {"temp", "pointer", "static"} THEN
      Written(<<ASym("SP"), C("AM", "M-1"), C("D", "M"),
                ANum(SEGMENT_BASE[segment]), C("M", "D")>>, lc)
    ELSE
      Written(<<ASym(SEGMENTS[segment]), C("D", "M"), ANum(index),
                C("D", "D+A"), ASym("R13"), C("M", "D"),
                ASym("SP"), C("AM", "M-1"), C("D", "M"),
                ASym("R13"), C("A", "M"), C("M", "D")>>, lc)
  ELSE Raise(lc)

(* CodeWriter.writePop of src/main.py.  A segment outside SEGMENTS (constant
   included) leaves asm_code unbound: file.write(asm_code) raises. *)
main_writePop(segment, index, lc) ==
  IF segment \in main_Segments THEN
    IF segment \in {"temp", "pointer", "static"} THEN
      Written(<<ASym("SP"), C("AM", "M-1"), C("D", "M"),
                ANum(SEGMENT_BASE[segment] + index), C("M", "D")>>, lc)
    ELSE
      Written(<<ASym(SEGMENTS[segment]), C("D", "M"), ANum(index),
                C("D", "D+A"), ASym("R13"), C("M", "D"),
                ASym("SP"), C("AM", "M-1"), C("D", "M"),
                ASym("R13"), C("A", "M"), C("M", "D")>>, lc)
  ELSE Raise(lc)

writePush(v, segment, index, lc) ==
  IF v = "main" THEN main_writePush(segment, index, lc)
  ELSE VMT_writePush(segment, index, lc)

writePop(v, segment, index, lc) ==
  IF v = "main" THEN main_writePop(segment, index, lc)
  ELSE VMT_writePop(segment, index, lc)

(* "@X D=M @SP A=M M=D @SP M=M+1": push the value of register X. *)
PushReg(x) == <<ASym(x), C("D", "M")>> \o PushTail

(* writeCall pushing THAT before THIS. *)
writeCall_thatFirst(function_name, num_args, lc) ==
  Written(<<Comment("call", function_name, num_args),
            AIdx("RETURN_", lc), C("D", "A")>> \o PushTail
          \o PushReg("LCL") \o PushReg("ARG") \o PushReg("THAT") \o PushReg("THIS")
          \o <<ANum(num_args), C("D", "A"), ANum(5), C("D", "D+A"),
               ASym("SP"), C("D", "M-D"), ASym("ARG"), C("M", "D"),
               ASym("SP"), C("D", "M"), ASym("LCL"), C("M", "D"),
               ASym(function_name), J("0", "JMP"),
               L("RETURN_", lc)>>, lc + 1)

(* CodeWriter.writeCall of src/main.py. *)
writeCall(function_name, num_args, lc) ==
  Written(<<Comment("call", function_name, num_args),
            AIdx("RETURN_", lc), C("D", "A")>> \o PushTail
          \o PushReg("LCL") \o PushReg("ARG") \o PushReg("THIS") \o PushReg("THAT")
          \o <<ANum(num_args), C("D", "A"), ANum(5), C("D", "D+A"),
               ASym("SP"), C("D", "M-D"), ASym("ARG"), C("M", "D"),
               ASym("SP"), C("D", "M"), ASym("LCL"), C("M", "D"),
               ASym(function_name), J("0", "JMP"),
               L("RETURN_", lc)>>, lc + 1)

StackBase == 256

(* CodeWriter.writeInit of src/main.py: the two writes of the bootstrap. *)
writeInit(lc) ==
  <<<<Comment("Bootstrap code", "", NoIdx), ANum(StackBase), C("D", "A"),
      ASym("SP"), C("M", "D")>>,
    writeCall("Sys.init", 0, lc).asm>>

(* CodeWriter.__init__: the writes and the label_count a new generator
   starts with. *)
VMT_CodeWriterInit  == [file |-> <<>>, label_count |-> 0]
main_CodeWriterInit == [file |-> writeInit(0),
                        label_count |-> writeCall("Sys.init", 0, 0).lc]
CodeWriterInit(v) == IF v = "main" THEN main_CodeWriterInit ELSE VMT_CodeWriterInit

(***************************************************************************)
(* The target machine: 16-bit words, an A and a D register, a RAM whose    *)
(* first cells are SP, LCL, ARG, THIS, THAT, and the assembler's symbols.  *)
(***************************************************************************)
Modulus == 2^16
Word(x) == x % Modulus
Signed(w) == IF w >= 2^15 THEN w - Modulus ELSE w

RECURSIVE BitAnd(_, _, _)
BitAnd(a, b, w) ==
  IF w = 0 THEN 0
  ELSE (a % 2) * (b % 2) + 2 * BitAnd(a \div 2, b \div 2, w - 1)

And16(a, b) == BitAnd(a, b, 16)
Not16(a)    == Modulus - 1 - a
Or16(a, b)  == Not16(And16(Not16(a), Not16(b)))

Predefined == [SP |-> 0, LCL |-> 1, ARG |-> 2, THIS |-> 3, THAT |-> 4, R13 |-> 13]

Read(r, a)     == IF a \in DOMAIN r THEN r[a] ELSE 0
Store(r, a, v) == (a :> v) @@ r

(* The value the ALU computes for the comp field of a C-instruction. *)
Comp(c, a, d, m) ==
  CASE c = "0"   -> 0
    [] c = "-1"  -> Modulus - 1
    [] c = "D"   -> d
    [] c = "A"   -> a
    [] c = "M"   -> m
    [] c = "-M"  -> Word(Modulus - m)
    [] c = "!M"  -> Not16(m)
    [] c = "M-1" -> Word(m + Modulus - 1)
    [] c = "A-1" -> Word(a + Modulus - 1)
    [] c = "M+1" -> Word(m + 1)
    [] c = "D+A" -> Word(d + a)
    [] c = "M+D" -> Word(m + d)
    [] c = "M-D" -> Word(m - d + Modulus)
    [] c = "D-M" -> Word(d - m + Modulus)
    [] c = "M&D" -> And16(m, d)
    [] c = "M|D" -> Or16(m, d)

(* Whether the jump field of a C-instruction fires on the ALU output v. *)
Jumps(j, v) ==
  CASE j = ""    -> FALSE
    [] j = "JMP" -> TRUE
    [] j = "JEQ" -> v = 0
    [] j = "JGT" -> Signed(v) > 0
    [] j = "JLT" -> Signed(v) < 0

IsInstr(line) == line.k \in {"A", "C"}

(* Number of machine instructions among the first i-1 lines. *)
InstrsBefore(lines, i) ==
  Cardinality({p \in 1..(i - 1) : IsInstr(lines[p])})
InstrCount(lines) == InstrsBefore(lines, Len(lines) + 1)

RECURSIVE Flat(_)
Flat(f) == IF f = <<>> THEN <<>> ELSE Head(f) \o Flat(Tail(f))

Least(S) == CHOOSE x \in S : \A y \in S : x <= y

(* Entry symbols of other translation units (function names) are linked
   outside this stream's code. *)
ExternEntry == 2^15 - 1

(* The assembler's value of the symbol of an A-instruction, given the whole
   output: a number, a predefined register, a label declared in the stream
   (its ROM address), a variable (allocated from the static base in order
   of first use), else an entry symbol defined elsewhere. *)
SymbolValue(line, flat) ==
  LET decl == {p \in 1..Len(flat) :
                 flat[p].k = "L" /\ flat[p].d = line.d /\ flat[p].n = line.n}
      uses(i) == {p \in 1..Len(flat) :
                 flat[p].k = "A" /\ flat[p].d = "Static." /\ flat[p].n = i}
      statics == {flat[p].n : p \in {q \in 1..Len(flat) :
                 flat[q].k = "A" /\ flat[q].d = "Static."}}
  IN IF line.d = "" THEN line.n
     ELSE IF line.d \in DOMAIN Predefined THEN Predefined[line.d]
     ELSE IF decl # {} THEN InstrsBefore(flat, Least(decl))
     ELSE IF line.d = "Static." THEN
       SEGMENT_BASE.static
         + Cardinality({i \in statics : Least(uses(i)) < Least(uses(line.n))})
     ELSE ExternEntry

(* The machine inside a fragment: registers, RAM, the line pc to execute
   next, and kind "run" until control leaves the fragment: by falling off its
   end ("fall"), or by a jump at line `at` to an address `to` outside it
   ("jump"). *)
Running(a, d, r, pc) ==
  [A |-> a, D |-> d, ram |-> r, pc |-> pc, kind |-> "run", to |-> 0, at |-> 0]

(* The line of frag at ROM address target, frag starting at ROM address base
   (the line after the last one for the address just past the fragment);
   0 when the address is outside the fragment. *)
LineAt(frag, base, target) ==
  IF target < base \/ target > base + InstrCount(frag) THEN 0
  ELSE Least({p \in 1..(Len(frag) + 1) :
                /\ InstrsBefore(frag, p) = target - base
                /\ (p = Len(frag) + 1 \/ IsInstr(frag[p]))})

(* A C-instruction whose ALU output is v: the destinations are written, and
   a jump that fires goes to the address in A. *)
StepC(frag, base, st, line, v, dest) ==
  [A    |-> IF line.d \in {"A", "AM"} THEN v ELSE st.A,
   D    |-> IF line.d = "D" THEN v ELSE st.D,
   ram  |-> IF line.d \in {"M", "AM"} THEN Store(st.ram, st.A, v) ELSE st.ram,
   pc   |-> IF ~Jumps(line.j, v) THEN st.pc + 1
            ELSE IF dest # 0 THEN dest ELSE st.pc,
   kind |-> IF Jumps(line.j, v) /\ dest = 0 THEN "jump" ELSE "run",
   to   |-> IF Jumps(line.j, v) /\ dest = 0 THEN st.A ELSE 0,
   at   |-> IF Jumps(line.j, v) /\ dest = 0 THEN st.pc ELSE 0]

(* One line of the fragment. *)
Step(frag, flat, base, st, line) ==
  IF ~IsInstr(line) THEN [st EXCEPT !.pc = @ + 1]
  ELSE IF line.k = "A" THEN
    [st EXCEPT !.A = SymbolValue(line, flat), !.pc = @ + 1]
  ELSE StepC(frag, base, st, line,
             Comp(line.c, st.A, st.D, Read(st.ram, st.A)),
             IF line.j = "" THEN 0 ELSE LineAt(frag, base, st.A))

Step1(frag, flat, base, st) ==
  IF st.kind # "run" THEN st
  ELSE IF st.pc > Len(frag) THEN
    [st EXCEPT !.kind = "fall", !.to = base + InstrCount(frag), !.at = st.pc]
  ELSE Step(frag, flat, base, st, frag[st.pc])

(* n steps of the machine (a fragment that has ended stays as it is). *)
RECURSIVE Steps(_, _, _, _, _)
Steps(frag, flat, base, st, n) ==
  IF n = 0 THEN st
  ELSE IF n = 1 THEN Step1(frag, flat, base, st)
  ELSE CHOOSE end \in {Steps(frag, flat, base, mid, n - (n \div 2)) :
                         mid \in {Steps(frag, flat, base, st, n \div 2)}} : TRUE

(* Run a fragment from its first line until control leaves it; "diverge"
   when it has not left after every line was executed twice. *)
Run(frag, flat, base, a, d, r) ==
  LET end == Steps(frag, flat, base, Running(a, d, r, 1), 2 * Len(frag) + 2)
  IN IF end.kind = "run" THEN [end EXCEPT !.kind = "diverge"] ELSE end

(***************************************************************************)
(* Actions                                                                 *)
(***************************************************************************)
(* One iteration of the loop of VMTranslator.translate: advance, commandType,
   dispatch.  An exception ends translation in status "error". *)
TranslateStep ==
  /\ status = "translating"
  /\ commands # <<>>
  /\ LET cmd == Head(commands)
         ct  == commandType(variant, cmd)
         a1  == arg1(variant, cmd)
         a2  == arg2(variant, cmd)
         res == IF ct = "C_ARITHMETIC" THEN
                  IF a1.err THEN Raise(label_count)
                  ELSE writeArithmetic(a1.val, label_count)
                ELSE IF ct = "C_PUSH" THEN
                  IF a1.err \/ a2.err THEN Raise(label_count)
                  ELSE writePush(variant, a1.val, a2.val, label_count)
                ELSE IF ct = "C_POP" THEN
                  IF a1.err \/ a2.err THEN Raise(label_count)
                  ELSE writePop(variant, a1.val, a2.val, label_count)
                ELSE Raise(label_count)
         dispatched == ct \in {"C_ARITHMETIC", "C_PUSH", "C_POP"}
     IN /\ commands' = Tail(commands)
        /\ current_command' = cmd
        /\ IF ct = "ERROR" \/ (dispatched /\ res.err) THEN
             /\ status' = "error"
             /\ UNCHANGED <<file, origin, label_count>>
           ELSE IF dispatched THEN
             /\ file' = Append(file, res.asm)
             /\ origin' = Append(origin, Len(vmfile) - Len(commands) + 1)
             /\ label_count' = res.lc
             /\ UNCHANGED status
           ELSE UNCHANGED <<file, origin, label_count, status>>
  /\ UNCHANGED <<variant, vmfile>>
  /\ UNCHANGED machineVars

(* The loop of translate ends and the output file is closed. *)
Close ==
  /\ status = "translating"
  /\ commands = <<>>
  /\ status' = "closed"
  /\ UNCHANGED <<variant, vmfile, commands, current_command, label_count,
                 file, origin>>
  /\ UNCHANGED machineVars

(* The machine runs the next fragment of the closed output file. *)
Execute ==
  /\ status = "closed"
  /\ executed < Len(file)
  /\ \E flat \in {Flat(file)} :
     \E r \in {Run(file[executed + 1], flat,
                    InstrCount(Flat(SubSeq(file, 1, executed))),
                    regA, regD, ram)} :
        /\ ram' = r.ram
        /\ regA' = r.A
        /\ regD' = r.D
        /\ exit' = [kind |-> r.kind, to |-> r.to, at |-> r.at]
  /\ executed' = executed + 1
  /\ trace' = Append(trace, ram)
  /\ UNCHANGED transVars

Next == TranslateStep \/ Close \/ Execute

(***************************************************************************)
(* Initial states: a translator constructed on a .vm file, and a machine   *)
(* whose RAM nothing has initialised yet.                                  *)
(***************************************************************************)
(* RAM at power-on: every cell 0. *)
ZeroImage == [a \in {} |-> 0]
(* RAM as a test script sets it up before running a translated program. *)
TestImage == (0 :> StackBase) @@ (1 :> 300) @@ (2 :> 400) @@ (3 :> 3000) @@ (4 :> 3010)

Programs(alphabet, maxLen) ==
  UNION {[1..len -> alphabet] : len \in 0..maxLen}

InitWith(variants, programs, images) ==
  /\ variant \in variants
  /\ vmfile \in programs
  /\ commands = vmfile
  /\ current_command = <<>>
  /\ label_count = CodeWriterInit(variant).label_count
  /\ file = CodeWriterInit(variant).file
  /\ origin = [i \in 1..Len(CodeWriterInit(variant).file) |-> 0]
  /\ status = "translating"
  /\ ram \in images
  /\ regA = 0
  /\ regD = 0
  /\ executed = 0
  /\ trace = <<>>
  /\ exit = [kind |-> "none", to |-> 0, at |-> 0]

Variants == {"VMTranslator", "main"}

(* A client of the generator calls CodeWriter.writeCall (src/main.py) on the
   open output file, as writeInit does for Sys.init. *)
IsCallFragment(frag) == frag # <<>> /\ frag[1].k = "//" /\ frag[1].c = "call"
NumCalls == Cardinality({i \in 1..Len(file) : IsCallFragment(file[i])})

MaxCalls == 1
CallNames == {"f"}
CallArgs == {0, 1, 2}

CallStep ==
  /\ variant = "main"
  /\ status = "translating"
  /\ NumCalls <= MaxCalls
  /\ \E function_name \in CallNames, num_args \in CallArgs :
       /\ file' = Append(file, writeCall(function_name, num_args, label_count).asm)
       /\ label_count' = writeCall(function_name, num_args, label_count).lc
  /\ origin' = Append(origin, 0)
  /\ UNCHANGED <<variant, vmfile, commands, current_command, status>>
  /\ UNCHANGED machineVars

NextCall == TranslateStep \/ CallStep \/ Close \/ Execute

(***************************************************************************)
(* Specifications: the same translator and machine, on programs over the   *)
(* commands each group of properties is about.                             *)
(***************************************************************************)
MaxCmds == 3
MaxMemCmds == 2
MaxArithCmds == 3
MaxCmpCmds == 4
MaxCallCmds == 2

(* A command of every kind: the translation pipeline. *)
AllKinds ==
  {<<"add">>, <<"eq">>,
   <<"push", "constant", <<"1", "7">>>>, <<"push", "bogus", <<"0">>>>,
   <<"pop", "local", <<"0">>>>, <<"pop", "constant", <<"0">>>>, <<"pop", "bogus", <<"0">>>>,
   <<"label", "LOOP">>, <<"call", "f", <<"2">>>>, <<"foo">>}

Init == InitWith(Variants, Programs(AllKinds, MaxCmds), {ZeroImage})
Spec == Init /\ [][Next]_vars

(* The pipeline again, with the command without tokens that
   Parser.__init__ makes of a line holding only an indented comment. *)
MaxAbortCmds == 3
AbortKinds == AllKinds \cup {<<>>}

InitAbort == InitWith(Variants, Programs(AbortKinds, MaxAbortCmds), {ZeroImage})
SpecAbort == InitAbort /\ [][Next]_vars

(* Memory access: every segment, and one command of each arithmetic shape. *)
MemKinds ==
  {<<"push", "constant", <<"0">>>>, <<"push", "constant", <<"1", "7">>>>,
   <<"push", "local", <<"1">>>>, <<"push", "this", <<"0">>>>, <<"push", "temp", <<"2">>>>,
   <<"push", "static", <<"3">>>>, <<"push", "pointer", <<"1">>>>,
   <<"pop", "local", <<"1">>>>, <<"pop", "argument", <<"0">>>>, <<"pop", "this", <<"0">>>>,
   <<"pop", "that", <<"2">>>>, <<"pop", "temp", <<"2">>>>, <<"pop", "static", <<"3">>>>,
   <<"pop", "pointer", <<"0">>>>, <<"pop", "pointer", <<"1">>>>,
   <<"add">>, <<"neg">>, <<"lt">>}

InitMem == InitWith(Variants, Programs(MemKinds, MaxMemCmds), {ZeroImage, TestImage})
SpecMem == InitMem /\ [][Next]_vars

(* Arithmetic and logic on pushed operands. *)
ArithKinds ==
  {<<"push", "constant", <<"2">>>>, <<"push", "constant", <<"3">>>>,
   <<"add">>, <<"sub">>, <<"and">>, <<"or">>, <<"neg">>, <<"not">>}

InitArith == InitWith(Variants, Programs(ArithKinds, MaxArithCmds), {TestImage})
SpecArith == InitArith /\ [][Next]_vars

(* Comparisons, on operands up to the ends of the 16-bit range. *)
CmpKinds ==
  {<<"push", "constant", <<"3", "2", "7", "6", "7">>>>, <<"push", "constant", <<"1">>>>, <<"neg">>,
   <<"eq">>, <<"gt">>, <<"lt">>}

InitCmp == InitWith(Variants, Programs(CmpKinds, MaxCmpCmds), {TestImage})
SpecCmp == InitCmp /\ [][Next]_vars

(* Calls and comparisons drawing on one label counter. *)
CallKinds == {<<"push", "constant", <<"1", "7">>>>, <<"eq">>}

InitCall == InitWith({"main"}, Programs(CallKinds, MaxCallCmds), {ZeroImage, TestImage})
SpecCall == InitCall /\ [][NextCall]_vars

(***************************************************************************)
(* Properties of the translation pipeline (Spec)                           *)
(***************************************************************************)
Consumed == Len(vmfile) - Len(commands)

(* The fragments written for commands of the .vm file, as the indices of
   those commands in output order. *)
CommandOrigins == SelectSeq(origin, LAMBDA o : o > 0)

SegmentTable == {"constant", "local", "argument", "this", "that", "temp",
                 "pointer", "static"}
(* The command kinds of the data model: arithmetic, memory access, label,
   goto, if-goto, function, call, return. *)
RecognisedKinds ==
  ArithmeticCommands
    \cup {"push", "pop", "label", "goto", "if-goto", "function", "call", "return"}

(* An invalid command: a pop to constant, a push or pop naming a segment
   outside the table, or a kind that is not recognised.  A command without
   tokens (a line holding only an indented comment) names no kind, segment
   or operation: it is none of these. *)
Invalid(cmd) ==
  /\ cmd # <<>>
  /\ \/ cmd[1] \notin RecognisedKinds
     \/ cmd[1] \in {"push", "pop"} /\ cmd[2] \notin SegmentTable
     \/ cmd[1] = "pop" /\ cmd[2] = "constant"

BootstrapHead == <<ANum(StackBase), C("D", "A"), ASym("SP"), C("M", "D")>>
Instrs(lines) == SelectSeq(lines, IsInstr)
JumpLines(lines) == {p \in 1..Len(lines) : lines[p].j # ""}

(* C7 as the specification states it: every output stream the generator
   produces begins with the bootstrap.  Its first instructions set SP to 256,
   and its first control transfer is the jump to Sys.init, reached through a
   call with 0 arguments; the bootstrap is emitted once, by the constructor
   (no fragment of a command repeats it). *)
C7_BootstrapFirst ==
  status = "closed" =>
    LET code == Instrs(Flat(file))
    IN /\ Len(file) >= 2
       /\ Len(code) >= 4
       /\ SubSeq(code, 1, 4) = BootstrapHead
       /\ IsCallFragment(file[2])
       /\ file[2][1].d = "Sys.init" /\ file[2][1].n = 0
       /\ JumpLines(code) # {}
       /\ code[Least(JumpLines(code))] = J("0", "JMP")
       /\ code[Least(JumpLines(code)) - 1] = ASym("Sys.init")
       /\ \A i \in 3..Len(file) : Instrs(file[i]) # BootstrapHead

(* C8 as the specification states it: in the completed output there is
   exactly one fragment per command of the input, in input order, whatever
   the kind of the command. *)
C8_OneFragmentPerCommand ==
  status = "closed" => CommandOrigins = [i \in 1..Len(vmfile) |-> i]

(* C9 as the specification states it: translation aborts at the first
   invalid command and at no other.  A command that is invalid puts
   translation in the error state when it is consumed; the error state is
   entered only at an invalid command, no fragment is written for it, and
   nothing after it is consumed or written; an output that is closed comes
   from a sequence without invalid commands, consumed to its end. *)
C9_AbortOnFirstInvalid ==
  /\ \A i \in 1..Consumed :
       Invalid(vmfile[i]) => status = "error" /\ i = Consumed
  /\ status = "error" =>
       /\ Consumed >= 1
       /\ Invalid(vmfile[Consumed])
       /\ \A k \in 1..Len(origin) : origin[k] < Consumed
  /\ status = "closed" =>
       /\ commands = <<>>
       /\ \A i \in 1..Len(vmfile) : ~Invalid(vmfile[i])

(***************************************************************************)
(* Properties of executed fragments                                        *)
(***************************************************************************)
(* The fragment the machine executed last was written for a command of the
   .vm file; LastCmd is that command, Pre the RAM the fragment started in. *)
CmdFragment == executed > 0 /\ origin[executed] > 0
LastCmd == vmfile[origin[executed]]
Pre == trace[executed]
SPOf(r) == Read(r, 0)

IsBinary(cmd)  == cmd[1] \in {"add", "sub", "and", "or"}
IsUnary(cmd)   == cmd[1] \in {"neg", "not"}
IsCompare(cmd) == cmd[1] \in {"eq", "gt", "lt"}

(* The number a push or pop command carries. *)
IndexOf(cmd) == int(cmd[3]).val

BaseRegister == [local |-> 1, argument |-> 2, this |-> 3, that |-> 4]

(* The resolved address of segment seg, index i, in RAM r: base + i through
   the base register for local, argument, this, that; 5 + i for temp; 3 + i
   for pointer; the static cell of index i. *)
ResolvedAddress(v, seg, i, r, flat) ==
  IF seg \in DOMAIN BaseRegister THEN Word(Read(r, BaseRegister[seg]) + i)
  ELSE IF seg = "temp" THEN 5 + i
  ELSE IF seg = "pointer" THEN 3 + i
  ELSE IF v = "main" THEN 16 + i
  ELSE SymbolValue(AIdx("Static.", i), flat)

(* The cell a fragment stores its result in. *)
StoredCell(v, cmd, r, flat) ==
  IF IsBinary(cmd) \/ IsCompare(cmd) THEN Word(SPOf(r) + Modulus - 2)
  ELSE IF IsUnary(cmd) THEN Word(SPOf(r) + Modulus - 1)
  ELSE IF cmd[1] = "push" THEN SPOf(r)
  ELSE ResolvedAddress(v, cmd[2], IndexOf(cmd), r, flat)

(* The change of SP the command's kind prescribes, as a 16-bit word. *)
SPDelta(cmd) ==
  IF cmd[1] = "push" THEN 1
  ELSE IF IsUnary(cmd) THEN 0
  ELSE Modulus - 1

(* C1 as the specification states it, for a stack pointer in the stack
   region: after the fragment of a command, SP is SP before plus 1 for a
   push, minus 1 for a pop, a binary operation or a comparison, and unchanged
   for a unary operation. *)
C1_SPDeltaAlways ==
  (CmdFragment /\ SPOf(Pre) >= StackBase) =>
    SPOf(ram) = Word(SPOf(Pre) + SPDelta(LastCmd))

(* C1, amended: the SP change holds (modulo 2^16, from any stack pointer)
   whenever the cell the fragment stores its result in is not cell 0, where
   SP itself is kept. *)
C1_SPDelta ==
  (CmdFragment /\ StoredCell(variant, LastCmd, Pre, Flat(file)) # 0) =>
    SPOf(ram) = Word(SPOf(Pre) + SPDelta(LastCmd))

(* "pop that 2" was executed above the stack base: it stored the popped value
   at THAT + 2 and left SP one lower. *)
C1_Witness ==
  /\ CmdFragment
  /\ LastCmd = <<"pop", "that", <<"2">>>>
  /\ SPOf(Pre) > StackBase
  /\ SPOf(ram) = SPOf(Pre) - 1
  /\ Read(ram, Read(Pre, 4) + 2) = Read(Pre, SPOf(Pre) - 1)
  /\ Read(Pre, SPOf(Pre) - 1) # 0

(* The last two fragments executed are those of "push constant c" and, next
   in the file, "pop seg i". *)
PushPopPair ==
  /\ executed >= 2
  /\ origin[executed - 1] > 0
  /\ origin[executed] = origin[executed - 1] + 1
  /\ vmfile[origin[executed - 1]][1] = "push"
  /\ vmfile[origin[executed - 1]][2] = "constant"
  /\ LastCmd[1] = "pop"
PairPre == trace[executed - 1]
PairDest ==
  ResolvedAddress(variant, LastCmd[2], IndexOf(LastCmd), PairPre, Flat(file))
PairRoundTrip ==
  /\ Read(ram, PairDest) = IndexOf(vmfile[origin[executed - 1]])
  /\ SPOf(ram) = SPOf(PairPre)

(* C2 as the specification states it, for a stack pointer in the stack
   region: after "push constant c; pop seg i" the resolved address holds c
   and SP is what it was before the push. *)
C2_RoundTripAlways ==
  (PushPopPair /\ SPOf(PairPre) >= StackBase) => PairRoundTrip

(* C2, amended: the round trip holds when the stack pointer is in the stack
   region and the resolved address is not cell 0. *)
C2_RoundTrip ==
  (PushPopPair /\ SPOf(PairPre) >= StackBase /\ PairDest # 0) => PairRoundTrip

(* "push constant 17; pop temp 2" was executed: RAM[7] = 17. *)
C2_Witness ==
  /\ PushPopPair
  /\ vmfile[origin[executed - 1]] = <<"push", "constant", <<"1", "7">>>>
  /\ LastCmd = <<"pop", "temp", <<"2">>>>
  /\ SPOf(PairPre) >= StackBase
  /\ Read(ram, 7) = 17

IsPushPop == CmdFragment /\ LastCmd[1] \in {"push", "pop"}
BaseRegisters == {1, 2, 3, 4}

(* C10 as the specification states it: a push or pop fragment leaves LCL,
   ARG, THIS and THAT as they were. *)
C10_BasesUnchangedAlways ==
  IsPushPop => \A b \in BaseRegisters : Read(ram, b) = Read(Pre, b)

(* C10, amended: a push or pop fragment leaves LCL, ARG, THIS and THAT as
   they were, except the one (if any) that is the cell the fragment stores
   to: the resolved address of a pop ("pop pointer 0" sets THIS,
   "pop pointer 1" sets THAT), the cell SP points to for a push. *)
C10_BasesUnchanged ==
  IsPushPop =>
    \A b \in BaseRegisters \ {StoredCell(variant, LastCmd, Pre, Flat(file))} :
      Read(ram, b) = Read(Pre, b)

(* "pop pointer 0" was executed with all four registers set: it changed
   THIS to the popped value and left LCL, ARG and THAT as they were. *)
C10_Witness ==
  /\ IsPushPop
  /\ LastCmd = <<"pop", "pointer", <<"0">>>>
  /\ \A b \in BaseRegisters : Read(Pre, b) # 0
  /\ Read(ram, 3) = 17
  /\ Read(Pre, 3) # 17
  /\ \A b \in {1, 2, 4} : Read(ram, b) = Read(Pre, b)

(* The operands of the last fragment: x the deeper, y the top of the stack. *)
OperandX == Read(Pre, SPOf(Pre) - 2)
OperandY == Read(Pre, SPOf(Pre) - 1)

(* What the VM command computes, on 16-bit words. *)
BinaryResult(op, x, y) ==
  CASE op = "add" -> Word(x + y)
    [] op = "sub" -> Word(x + Modulus - y)
    [] op = "and" -> And16(x, y)
    [] op = "or"  -> Or16(x, y)
UnaryResult(op, y) ==
  IF op = "neg" THEN Word(Modulus - y) ELSE Modulus - 1 - y

(* The stack cells from the stack base up to, not including, cell top are as
   they were before the fragment. *)
StackBelowUnchanged(top) ==
  \A a \in StackBase..(top - 1) : Read(ram, a) = Read(Pre, a)

(* The last three fragments are those of "push constant 2",
   "push constant 3", "add", executed from a stack pointer in the stack
   region. *)
TwoPlusThree ==
  /\ executed >= 3
  /\ origin[executed - 2] > 0
  /\ origin[executed - 1] = origin[executed - 2] + 1
  /\ origin[executed] = origin[executed - 2] + 2
  /\ vmfile[origin[executed - 2]] = <<"push", "constant", <<"2">>>>
  /\ vmfile[origin[executed - 1]] = <<"push", "constant", <<"3">>>>
  /\ vmfile[origin[executed]] = <<"add">>
  /\ SPOf(trace[executed - 2]) >= StackBase

(* C3: with both operands in stack cells, a binary fragment replaces x and y
   by x+y, x-y, x&y, x|y (modulo 2^16, x the deeper one) in the cell of x and
   lowers SP by one; a unary fragment replaces the top y by -y or !y and
   keeps SP; no stack cell below the operands changes; and
   "push constant 2; push constant 3; add" leaves 5 on top with SP one above
   where it started. *)
C3_Arithmetic ==
  /\ (CmdFragment /\ IsBinary(LastCmd) /\ SPOf(Pre) >= StackBase + 2) =>
       /\ Read(ram, SPOf(Pre) - 2) = BinaryResult(LastCmd[1], OperandX, OperandY)
       /\ SPOf(ram) = SPOf(Pre) - 1
       /\ StackBelowUnchanged(SPOf(Pre) - 2)
  /\ (CmdFragment /\ IsUnary(LastCmd) /\ SPOf(Pre) >= StackBase + 1) =>
       /\ Read(ram, SPOf(Pre) - 1) = UnaryResult(LastCmd[1], OperandY)
       /\ SPOf(ram) = SPOf(Pre)
       /\ StackBelowUnchanged(SPOf(Pre) - 1)
  /\ TwoPlusThree =>
       /\ Read(ram, SPOf(ram) - 1) = 5
       /\ SPOf(ram) = SPOf(trace[executed - 2]) + 1

(* "push constant 2; push constant 3; sub" was executed: 2 - 3 is 65535 on
   top of the stack. *)
C3_Witness ==
  /\ CmdFragment
  /\ LastCmd = <<"sub">>
  /\ SPOf(Pre) >= StackBase + 2
  /\ OperandX = 2 /\ OperandY = 3
  /\ Read(ram, SPOf(ram) - 1) = Modulus - 1

(* C4 as the specification states it: a comparison fragment replaces x and y
   by -1 (all ones) when the signed relation x = y, x > y, x < y holds and
   by 0 when it does not, for every pair of signed 16-bit operands, and
   lowers SP by one. *)
Relation(op, x, y) ==
  CASE op = "eq" -> Signed(x) = Signed(y)
    [] op = "gt" -> Signed(x) > Signed(y)
    [] op = "lt" -> Signed(x) < Signed(y)

C4_Comparison ==
  (CmdFragment /\ IsCompare(LastCmd) /\ SPOf(Pre) >= StackBase + 2) =>
    /\ Read(ram, SPOf(Pre) - 2) =
         (IF Relation(LastCmd[1], OperandX, OperandY) THEN Modulus - 1 ELSE 0)
    /\ SPOf(ram) = SPOf(Pre) - 1

(***************************************************************************)
(* Properties of labels and calls (SpecCall)                               *)
(***************************************************************************)
LabelLines(lines) == {p \in 1..Len(lines) : lines[p].k = "L"}
LabelsWith(lines, prefix) == {p \in LabelLines(lines) : lines[p].d = prefix}
ComparisonFragments ==
  {i \in 1..Len(file) : origin[i] > 0 /\ IsCompare(vmfile[origin[i]])}

(* Every label of the output is declared once, and with an index the label
   counter has passed: N comparisons declare N TRUE_k and N END_k, each call
   one RETURN_k. *)
LabelsDistinct ==
  LET flat == Flat(file)
  IN /\ \A p, q \in LabelLines(flat) :
          (flat[p].d = flat[q].d /\ flat[p].n = flat[q].n) => p = q
     /\ \A p \in LabelLines(flat) : flat[p].n >= 0 /\ flat[p].n < label_count
     /\ Cardinality(LabelsWith(flat, "TRUE_")) = Cardinality(ComparisonFragments)
     /\ Cardinality(LabelsWith(flat, "END_")) = Cardinality(ComparisonFragments)
     /\ Cardinality(LabelsWith(flat, "RETURN_")) = NumCalls
     /\ Cardinality(LabelLines(flat)) = 2 * Cardinality(ComparisonFragments) + NumCalls

(* C5: within one output stream every generated label is declared at most
   once (comparison labels among themselves, return labels among themselves
   and against comparison labels, the bootstrap's included), and the label
   counter never decreases. *)
C5_UniqueLabels ==
  /\ []LabelsDistinct
  /\ [][label_count' >= label_count]_vars

(* An output with the bootstrap's call, one more call and two comparisons:
   two return labels and four comparison labels. *)
C5_Witness ==
  /\ NumCalls = 2
  /\ Cardinality(ComparisonFragments) = 2
  /\ Cardinality(LabelLines(Flat(file))) = 6

(* The fragment executed last is one writeCall wrote. *)
CallExecuted == executed > 0 /\ IsCallFragment(file[executed])
CallName == file[executed][1].d
CallNumArgs == file[executed][1].n
(* ROM address of the label that ends the fragment executed last. *)
ReturnAddress == InstrCount(Flat(SubSeq(file, 1, executed)))

(* C6: the fragment of writeCall(name, nArgs), run from SP = s, leaves the
   fragment at its jump to name with cells s..s+4 holding the return address
   (the address of the label emitted right after the jump), then the LCL,
   ARG, THIS and THAT of before the call; SP = s + 5, ARG = s - nArgs,
   LCL = s + 5; exactly those five cells and the three registers are
   written. *)
C6_CallFrame ==
  CallExecuted =>
    LET frag == file[executed]
        s == SPOf(Pre)
    IN /\ exit.kind = "jump"
       /\ exit.at = Len(frag) - 1
       /\ exit.to = SymbolValue(ASym(CallName), Flat(file))
       /\ frag[Len(frag) - 2] = ASym(CallName)
       /\ frag[Len(frag) - 1] = J("0", "JMP")
       /\ frag[Len(frag)].k = "L"
       /\ frag[2] = [frag[Len(frag)] EXCEPT !.k = "A"]
       /\ Read(ram, s) = ReturnAddress
       /\ \A b \in BaseRegisters : Read(ram, s + b) = Read(Pre, b)
       /\ SPOf(ram) = s + 5
       /\ Read(ram, 2) = Word(s + Modulus - CallNumArgs)
       /\ Read(ram, 1) = s + 5
       /\ Read(ram, 3) = Read(Pre, 3) /\ Read(ram, 4) = Read(Pre, 4)
       /\ \A a \in (DOMAIN ram \cup DOMAIN Pre) \ ({0, 1, 2} \cup s..(s + 4)) :
            Read(ram, a) = Read(Pre, a)

(* A call of f with 2 arguments was executed from SP = 263, after two
   pushes: ARG is 261, the first of them. *)
C6_Witness ==
  /\ CallExecuted
  /\ CallName = "f" /\ CallNumArgs = 2
  /\ SPOf(Pre) = StackBase + 7
  /\ Read(Pre, StackBase + 5) = 17
  /\ Read(ram, 2) = StackBase + 5
  /\ Read(ram, 1) = StackBase + 12
  /\ Read(ram, StackBase + 8) = StackBase + 5

====
